---- MODULE Spec2Model ----
(***************************************************************************)
(* aiothrift: ThriftConnection (aiothrift/connection.py).                  *)
(*                                                                         *)
(* One connection object used by the coroutines of one event loop          *)
(* (Callers).  A step of the model is the code a coroutine runs between    *)
(* two suspension points (yield from): asyncio never interleaves anything  *)
(* inside such a stretch.  The peer and the transport are the environment. *)
(*                                                                         *)
(* The codec (protocol.py) is not part of the modelled source: a frame is  *)
(* a unit here.  The writer side is the sequence of tokens the three       *)
(* write_* calls append; the reader side is the number of response frames  *)
(* received and not yet read, of which read_message_begin takes the        *)
(* header, read_struct the body and read_message_end the terminator.       *)
(* What a frame holds is drawn when it is decoded: nothing observes it     *)
(* before.                                                                 *)
(***************************************************************************)
EXTENDS Integers, Sequences, FiniteSets, TLC

\* ---------------------------------------------------------------- bounds
MaxCalls   == 2     \* cap on the number of request frames written
MaxInq     == 1     \* cap on response frames sent by the peer and not yet read
NumArgFields == 2   \* fields the argument schema of the called method declares

\* Two coroutines share the connection: every property below is about one
\* call or about a pair of calls, and two callers give every interleaving of
\* a pair.
Callers == {1, 2}

\* ------------------------------------------------ the service descriptor
\* service.<api>_result.thrift_spec, as the declared field names in order,
\* and service.<api>_result.oneway.
Apis == {"get", "ping", "put", "fire"}

ResultSpec(a) ==
    CASE a = "get"  -> <<"success", "e1">>
      [] a = "put"  -> <<"e1", "e2">>
      [] a = "ping" -> <<>>
      [] a = "fire" -> <<>>

Oneway(a) == a = "fire"

Range(s) == {s[i] : i \in 1..Len(s)}

\* hasattr(result, k): a thriftpy payload has one attribute per declared field
HasAttr(a, k) == k \in Range(ResultSpec(a))

\* ---------------------------------------------------------------- values
None == "None"
FieldNames == {"success", "e1", "e2"}

\* what a declared field of a decoded result struct can hold; "zero" is a
\* value that is not None but is falsy (0, False, "", [])
FieldValues(k) ==
    CASE k = "success" -> {None, "zero", "val"}
      [] k = "e1"      -> {None, "E1"}
      [] k = "e2"      -> {None, "E2"}

\* Python truthiness of a field value
Truthy(v) == v \notin {None, "zero"}

\* result = getattr(service, api + '_result')(), then read_struct(result):
\* every declared field is None or what the peer put in the body; a field
\* the schema does not declare is no attribute ("Absent")
ResultStructs(a) ==
    {r \in [FieldNames -> {None, "zero", "val", "E1", "E2", "Absent"}] :
        \A k \in FieldNames :
            IF HasAttr(a, k) THEN r[k] \in FieldValues(k) ELSE r[k] = "Absent"}

NoResult == [k \in FieldNames |-> "Unread"]

\* message kinds of a response header
MTypes == {"REPLY", "EXCEPTION"}
\* sequence ids the peer may put in a response header when the counter is n:
\* the id of any request written so far, or 0, which no request carries
PeerIds(n) == 0..n
Headers(n) == [mtype : MTypes, seqid : PeerIds(n)]
NoHdr == [mtype |-> None, seqid |-> -1]

\* outcomes of a call
Return(v) == [kind |-> "return", val |-> v]
Raise(e)  == [kind |-> "raise", val |-> e]
Pending   == [kind |-> "none", val |-> None]

\* ------------------------------------------------- the arguments of a call
\* service.<api>_args.thrift_spec: the declared argument fields, in order
ArgNames == <<"a", "b", "c", "d">>
ArgSpec == SubSeq(ArgNames, 1, NumArgFields)
ArgFields == Range(ArgSpec)
ArgValues == {"x", "y"}

\* a dict over the argument fields: "Unset" for a key the dict does not hold
Unset == "Unset"
Dicts == [ArgFields -> ArgValues \cup {Unset}]
\* the positional values of a call, at most one per declared field
Positionals ==
    UNION {[1..n -> ArgValues] : n \in 0..NumArgFields}

\* args2kwargs(thrift_spec, *args): the i-th positional value under the name
\* of the i-th declared field
Args2Kwargs(spec, pos) ==
    [k \in Range(spec) |->
        IF \E i \in 1..Len(pos) : spec[i] = k
        THEN pos[CHOOSE i \in 1..Len(pos) : spec[i] = k]
        ELSE Unset]

\* d.update(e): the keys of e, with the values of e, over those of d
DictUpdate(d, e) ==
    [k \in DOMAIN d |-> IF e[k] # Unset THEN e[k] ELSE d[k]]

\* kwargs.update(kw)
MergedKwargs(kwargs, kw) == DictUpdate(kwargs, kw)

\* args = <api>_args(); for k, v in kwargs.items(): setattr(args, k, v)
ArgsStruct(kwargs) ==
    [k \in ArgFields |-> IF kwargs[k] = Unset THEN None ELSE kwargs[k]]

\* the arguments of the call under study: the positional values, the keyword
\* values, and the argument struct execute builds of them
Unbuilt == [k \in ArgFields |-> "Unbuilt"]
ArgCalls == [pos : Positionals, kw : Dicts, out : {Unbuilt}]
NoArgCall == [pos |-> <<>>, kw |-> [k \in ArgFields |-> Unset], out |-> Unbuilt]

\* ----------------------------------------------------------------- state
VARIABLES
    closed,     \* self.closed
    seqid,      \* self._seqid
    timeout,    \* self.timeout is not None
    wire,       \* what has been written to self._oprot, in order
    inq,        \* number of response frames received and not yet read
    pc,         \* per caller: where its execute() coroutine stands
    api,        \* per caller: the api argument of its call
    mySeq,      \* per caller: the seqid its call wrote in the request header
                \* (0: the call wrote none)
    rhdr,       \* per caller: (mtype, rseqid) of _recv
    result,     \* per caller: the result struct of _recv
    outcome,    \* per caller: what execute() returned or raised
    argcall     \* args, kwargs and the argument struct of the call under study

vars == <<closed, seqid, timeout, wire, inq, pc, api, mySeq, rhdr, result, outcome,
          argcall>>
conn == <<closed, seqid, timeout, wire, inq>>

\* the suspension points of execute() and _recv()
ReadPoints == {"read_begin", "read_exc_struct", "read_exc_end",
               "read_struct", "read_end"}
Suspended == {"drain"} \cup ReadPoints

ConnInit ==
    /\ closed = FALSE
    /\ seqid = 0
    /\ timeout \in BOOLEAN
    /\ wire = <<>>
    /\ inq = 0
    /\ pc = [p \in Callers |-> "idle"]
    /\ api = [p \in Callers |-> None]
    /\ mySeq = [p \in Callers |-> 0]
    /\ rhdr = [p \in Callers |-> NoHdr]
    /\ result = [p \in Callers |-> NoResult]
    /\ outcome = [p \in Callers |-> Pending]

Init == ConnInit /\ argcall = NoArgCall

\* ------------------------------------------------------------ operations

\* a frame left without its terminator
Frame_NoEnd(a, id) ==
    << [t |-> "begin", name |-> a, mtype |-> "CALL", seqid |-> id],
       [t |-> "struct", name |-> a, mtype |-> None, seqid |-> id] >>

\* write_message_begin(api, CALL, seqid); args.write(oprot); write_message_end()
\* (the tokens of the body and of the terminator are tagged with the frame
\* they belong to)
Frame(a, id) ==
    << [t |-> "begin", name |-> a, mtype |-> "CALL", seqid |-> id],
       [t |-> "struct", name |-> a, mtype |-> None, seqid |-> id],
       [t |-> "end", name |-> a, mtype |-> None, seqid |-> id] >>

\* a close() that flips the flag instead of setting it
CloseEffect_Toggle == closed' = ~closed

\* self.close()
CloseEffect == closed' = TRUE

\* the coroutine ends: pc "done" with what it returned or raised; the locals
\* of _recv are gone
Finish(p, o) ==
    /\ pc' = [pc EXCEPT ![p] = "done"]
    /\ outcome' = [outcome EXCEPT ![p] = o]
    /\ rhdr' = [rhdr EXCEPT ![p] = NoHdr]
    /\ result' = [result EXCEPT ![p] = NoResult]

\* execute without the check of self.closed
Execute_NoClosedCheck(p, a) ==
    /\ pc[p] = "idle"
    /\ api' = [api EXCEPT ![p] = a]
    /\ seqid < MaxCalls
    /\ seqid' = seqid + 1
    /\ wire' = wire \o Frame(a, seqid + 1)
    /\ mySeq' = [mySeq EXCEPT ![p] = seqid + 1]
    /\ pc' = [pc EXCEPT ![p] = "drain"]
    /\ UNCHANGED <<closed, timeout, inq, rhdr, result, outcome>>
    /\ UNCHANGED argcall

\* execute that writes self._seqid without incrementing it first
Execute_NoIncrement(p, a) ==
    /\ pc[p] = "idle"
    /\ api' = [api EXCEPT ![p] = a]
    /\ IF closed
       THEN /\ Finish(p, Raise("ConnectionClosed"))
            /\ UNCHANGED <<conn, mySeq>>
       ELSE /\ Len(wire) < 3 * MaxCalls
            /\ seqid' = seqid
            /\ wire' = wire \o Frame(a, seqid)
            /\ mySeq' = [mySeq EXCEPT ![p] = seqid]
            /\ pc' = [pc EXCEPT ![p] = "drain"]
            /\ UNCHANGED <<closed, timeout, inq, rhdr, result, outcome>>
    /\ UNCHANGED argcall

\* execute that goes on to _recv without awaiting the drain
Execute_NoDrain(p, a) ==
    /\ pc[p] = "idle"
    /\ api' = [api EXCEPT ![p] = a]
    /\ IF closed
       THEN /\ Finish(p, Raise("ConnectionClosed"))
            /\ UNCHANGED <<conn, mySeq>>
       ELSE /\ seqid < MaxCalls
            /\ seqid' = seqid + 1
            /\ wire' = wire \o Frame(a, seqid + 1)
            /\ mySeq' = [mySeq EXCEPT ![p] = seqid + 1]
            /\ pc' = [pc EXCEPT ![p] = IF Oneway(a) THEN "drain" ELSE "read_begin"]
            /\ UNCHANGED <<closed, timeout, inq, rhdr, result, outcome>>
    /\ UNCHANGED argcall

\* execute(api, ...) up to its first suspension point, the drain
Execute(p, a) ==
    /\ pc[p] = "idle"
    /\ api' = [api EXCEPT ![p] = a]
    /\ IF closed
       THEN /\ Finish(p, Raise("ConnectionClosed"))
            /\ UNCHANGED <<conn, mySeq>>
       ELSE /\ seqid < MaxCalls
            /\ seqid' = seqid + 1
            /\ wire' = wire \o Frame(a, seqid + 1)
            /\ mySeq' = [mySeq EXCEPT ![p] = seqid + 1]
            /\ pc' = [pc EXCEPT ![p] = "drain"]
            /\ UNCHANGED <<closed, timeout, inq, rhdr, result, outcome>>
    /\ UNCHANGED argcall

\* execute that enters _recv whatever result_cls.oneway says
DrainDone_AlwaysRecv(p) ==
    /\ pc[p] = "drain"
    /\ pc' = [pc EXCEPT ![p] = "read_begin"]
    /\ UNCHANGED <<conn, api, mySeq, rhdr, result, outcome>>
    /\ UNCHANGED argcall

\* drain() completes; a oneway call returns, any other enters _recv
DrainDone(p) ==
    /\ pc[p] = "drain"
    /\ IF Oneway(api[p])
       THEN Finish(p, Return(None))
       ELSE /\ pc' = [pc EXCEPT ![p] = "read_begin"]
            /\ UNCHANGED <<rhdr, result, outcome>>
    /\ UNCHANGED <<conn, api, mySeq>>
    /\ UNCHANGED argcall

\* _recv that raises on a bad sequence id without self.close()
ReadMessageBegin_NoClose(p, h) ==
    /\ pc[p] = "read_begin"
    /\ inq > 0
    /\ inq' = inq - 1
    /\ IF h.seqid # seqid
       THEN /\ Finish(p, Raise("BAD_SEQUENCE_ID"))
            /\ UNCHANGED closed
       ELSE /\ rhdr' = [rhdr EXCEPT ![p] = h]
            /\ pc' = [pc EXCEPT ![p] =
                        IF h.mtype = "EXCEPTION"
                        THEN "read_exc_struct" ELSE "read_struct"]
            /\ UNCHANGED <<closed, result, outcome>>
    /\ UNCHANGED <<seqid, timeout, wire, api, mySeq>>
    /\ UNCHANGED argcall

\* read_message_begin() completes with the header h of the next frame; the
\* sequence check and the branch on mtype
ReadMessageBegin(p, h) ==
    /\ pc[p] = "read_begin"
    /\ inq > 0
    /\ inq' = inq - 1
    /\ IF h.seqid # seqid
       THEN /\ CloseEffect
            /\ Finish(p, Raise("BAD_SEQUENCE_ID"))
       ELSE /\ rhdr' = [rhdr EXCEPT ![p] = h]
            /\ pc' = [pc EXCEPT ![p] =
                        IF h.mtype = "EXCEPTION"
                        THEN "read_exc_struct" ELSE "read_struct"]
            /\ UNCHANGED <<closed, result, outcome>>
    /\ UNCHANGED <<seqid, timeout, wire, api, mySeq>>
    /\ UNCHANGED argcall

\* read_struct(x) of the TApplicationException completes
ReadExcStruct(p) ==
    /\ pc[p] = "read_exc_struct"
    /\ pc' = [pc EXCEPT ![p] = "read_exc_end"]
    /\ UNCHANGED <<conn, api, mySeq, rhdr, result, outcome>>
    /\ UNCHANGED argcall

\* read_message_end() completes; raise x
ReadExcEnd(p) ==
    /\ pc[p] = "read_exc_end"
    /\ Finish(p, Raise("TApplicationException"))
    /\ UNCHANGED <<conn, api, mySeq>>
    /\ UNCHANGED argcall

\* read_struct(result) completes with the decoded struct r
ReadStruct(p, r) ==
    /\ pc[p] = "read_struct"
    /\ r \in ResultStructs(api[p])
    /\ result' = [result EXCEPT ![p] = r]
    /\ pc' = [pc EXCEPT ![p] = "read_end"]
    /\ UNCHANGED <<conn, api, mySeq, rhdr, outcome>>
    /\ UNCHANGED argcall

\* for k, v in result.__dict__.items(): if k != 'success' and v: raise v
RECURSIVE FirstThrow(_, _, _)
FirstThrow(spec, r, i) ==
    IF i > Len(spec) THEN None
    ELSE IF spec[i] # "success" /\ Truthy(r[spec[i]]) THEN r[spec[i]]
    ELSE FirstThrow(spec, r, i + 1)

\* _recv without the final MISSING_RESULT raise: falls off the end
RecvOutcome_NoMissing(a, r) ==
    IF HasAttr(a, "success") /\ r["success"] # None
    THEN Return(r["success"])
    ELSE IF Len(ResultSpec(a)) = 0
    THEN Return(None)
    ELSE IF FirstThrow(ResultSpec(a), r, 1) # None
    THEN Raise(FirstThrow(ResultSpec(a), r, 1))
    ELSE Return(None)

\* _recv without the scan of the declared exceptions
RecvOutcome_NoThrows(a, r) ==
    IF HasAttr(a, "success") /\ r["success"] # None
    THEN Return(r["success"])
    ELSE IF Len(ResultSpec(a)) = 0
    THEN Return(None)
    ELSE IF HasAttr(a, "success")
    THEN Raise("MISSING_RESULT")
    ELSE Return(None)

\* _recv scanning the declared exceptions before it looks at success
RecvOutcome_ThrowsFirst(a, r) ==
    IF Len(ResultSpec(a)) = 0
    THEN Return(None)
    ELSE IF FirstThrow(ResultSpec(a), r, 1) # None
    THEN Raise(FirstThrow(ResultSpec(a), r, 1))
    ELSE IF HasAttr(a, "success") /\ r["success"] # None
    THEN Return(r["success"])
    ELSE IF HasAttr(a, "success")
    THEN Raise("MISSING_RESULT")
    ELSE Return(None)

\* _recv raising MISSING_RESULT whatever the result schema declares
RecvOutcome_AlwaysMissing(a, r) ==
    IF HasAttr(a, "success") /\ r["success"] # None
    THEN Return(r["success"])
    ELSE IF Len(ResultSpec(a)) = 0
    THEN Return(None)
    ELSE IF FirstThrow(ResultSpec(a), r, 1) # None
    THEN Raise(FirstThrow(ResultSpec(a), r, 1))
    ELSE Raise("MISSING_RESULT")

\* the tail of _recv, after read_message_end()
RecvOutcome(a, r) ==
    IF HasAttr(a, "success") /\ r["success"] # None
    THEN Return(r["success"])
    ELSE IF Len(ResultSpec(a)) = 0
    THEN Return(None)
    ELSE IF FirstThrow(ResultSpec(a), r, 1) # None
    THEN Raise(FirstThrow(ResultSpec(a), r, 1))
    ELSE IF HasAttr(a, "success")
    THEN Raise("MISSING_RESULT")
    ELSE Return(None)

\* read_message_end() completes; the result is resolved
ReadMessageEnd(p) ==
    /\ pc[p] = "read_end"
    /\ Finish(p, RecvOutcome(api[p], result[p]))
    /\ UNCHANGED <<conn, api, mySeq>>
    /\ UNCHANGED argcall

\* the handler of asyncio.TimeoutError without self.close()
TimeoutFires_NoClose(p) ==
    /\ timeout
    /\ pc[p] \in Suspended
    /\ Finish(p, Raise("Timeout"))
    /\ UNCHANGED <<conn, api, mySeq>>
    /\ UNCHANGED argcall

\* a timeout that covers the reads of the response only, not the flush
TimeoutFires_OnlyAtReads(p) ==
    /\ timeout
    /\ pc[p] \in ReadPoints
    /\ CloseEffect
    /\ Finish(p, Raise("Timeout"))
    /\ UNCHANGED <<seqid, timeout, wire, inq, api, mySeq>>
    /\ UNCHANGED argcall

\* except asyncio.TimeoutError: the timeout expires at a suspension point
TimeoutFires(p) ==
    /\ timeout
    /\ pc[p] \in Suspended
    /\ CloseEffect
    /\ Finish(p, Raise("Timeout"))
    /\ UNCHANGED <<seqid, timeout, wire, inq, api, mySeq>>
    /\ UNCHANGED argcall

\* the handlers of ConnectionError / IncompleteReadError without self.close()
TransportFails_NoClose(p) ==
    /\ pc[p] \in Suspended
    /\ Finish(p, Raise("ConnectionClosed"))
    /\ UNCHANGED <<conn, api, mySeq>>
    /\ UNCHANGED argcall

\* except ConnectionError / IncompleteReadError: the drain or a read fails
TransportFails(p) ==
    /\ pc[p] \in Suspended
    /\ CloseEffect
    /\ Finish(p, Raise("ConnectionClosed"))
    /\ UNCHANGED <<seqid, timeout, wire, inq, api, mySeq>>
    /\ UNCHANGED argcall

\* a close() that also starts the sequence counter again
Close_ResetsCounter ==
    /\ CloseEffect
    /\ seqid' = 0
    /\ UNCHANGED <<timeout, wire, inq, pc, api, mySeq, rhdr, result, outcome>>
    /\ UNCHANGED argcall

\* close()
Close ==
    /\ CloseEffect
    /\ UNCHANGED <<seqid, timeout, wire, inq, pc, api, mySeq, rhdr, result, outcome>>
    /\ UNCHANGED argcall

\* the caller has received what execute() returned or raised
Resume(p) ==
    /\ pc[p] = "done"
    /\ pc' = [pc EXCEPT ![p] = "idle"]
    /\ api' = [api EXCEPT ![p] = None]
    /\ mySeq' = [mySeq EXCEPT ![p] = 0]
    /\ outcome' = [outcome EXCEPT ![p] = Pending]
    /\ UNCHANGED <<conn, rhdr, result>>
    /\ UNCHANGED argcall

\* the peer sends a response frame
PeerSends ==
    /\ ~closed
    /\ inq < MaxInq
    /\ inq' = inq + 1
    /\ UNCHANGED <<closed, seqid, timeout, wire, pc, api, mySeq, rhdr, result, outcome>>
    /\ UNCHANGED argcall

Next ==
    \/ \E p \in Callers, a \in Apis : Execute(p, a)
    \/ \E p \in Callers : DrainDone(p)
    \/ \E p \in Callers, h \in Headers(seqid) : ReadMessageBegin(p, h)
    \/ \E p \in Callers : ReadExcStruct(p)
    \/ \E p \in Callers : ReadExcEnd(p)
    \/ \E p \in Callers, r \in ResultStructs("get") \cup ResultStructs("put")
                                \cup ResultStructs("ping") : ReadStruct(p, r)
    \/ \E p \in Callers : ReadMessageEnd(p)
    \/ \E p \in Callers : TimeoutFires(p)
    \/ \E p \in Callers : TransportFails(p)
    \/ \E p \in Callers : Resume(p)
    \/ PeerSends
    \/ Close

Spec == Init /\ [][Next]_vars

\* the event loop runs the timer of async_timeout.timeout: with a timeout
\* configured, a call that stays suspended is cancelled when it expires.
\* Nothing else is assumed to happen: the peer may stay silent and the flush
\* may never complete.
SpecLive == Init /\ [][Next]_vars /\ \A p \in Callers : WF_vars(TimeoutFires(p))

\* lines 94-95 and 100-102 of execute on their own: the argument struct built
\* of the positional and the keyword values of one call
BuildArgs ==
    /\ argcall.out = Unbuilt
    /\ argcall' = [argcall EXCEPT !.out =
            ArgsStruct(MergedKwargs(argcall.kw, Args2Kwargs(ArgSpec, argcall.pos)))]
    /\ UNCHANGED <<closed, seqid, timeout, wire, inq, pc, api, mySeq, rhdr, result,
                   outcome>>

InitArgs == ConnInit /\ argcall \in ArgCalls
NextArgs == BuildArgs
SpecArgs == InitArgs /\ [][NextArgs]_vars

\* ---------------------------------------------------------------- claims

\* caller p invokes execute in this step
Invokes(p) == pc[p] = "idle" /\ pc'[p] # "idle"

\* the invocation by p fails fast: ConnectionClosed, nothing written, nothing
\* read, the counter as it was
FailsFast(p) ==
    /\ pc'[p] = "done"
    /\ outcome'[p] = Raise("ConnectionClosed")
    /\ mySeq'[p] = 0
    /\ wire' = wire
    /\ inq' = inq
    /\ seqid' = seqid

\* the invocation by p writes one whole frame with the next sequence id and
\* suspends at the flush
SendsNext(p) ==
    /\ pc'[p] = "drain"
    /\ seqid' = seqid + 1
    /\ mySeq'[p] = seqid + 1
    /\ Len(wire') = Len(wire) + 3
    /\ wire'[Len(wire) + 1] =
          [t |-> "begin", name |-> api'[p], mtype |-> "CALL", seqid |-> seqid + 1]

\* the call of p ends in this step with something other than a timeout or a
\* transport failure: its last await has completed
Completes(p) ==
    /\ pc[p] \in Suspended
    /\ pc'[p] = "done"
    /\ outcome'[p] \notin {Raise("Timeout"), Raise("ConnectionClosed")}

\* the declared-exception fields of api a
ThrowFields(a) == Range(ResultSpec(a)) \ {"success"}

\* C1: in every state where closed is true, an invocation of execute fails
\* with ConnectionClosed, writes nothing to the transport, reads nothing and
\* leaves the sequence counter unchanged.
C1_ClosedFailsFast ==
    [][\A p \in Callers : (closed /\ Invokes(p)) => FailsFast(p)]_vars

\* a call failed fast on a connection on which no frame was ever written
C1_Witness ==
    \E p \in Callers :
        /\ closed /\ seqid = 0 /\ wire = <<>>
        /\ pc[p] = "done" /\ outcome[p] = Raise("ConnectionClosed")

\* C2 (as claimed): a call that has read a response header whose sequence id
\* differs from the id of its own request does not go on to the body: it has
\* failed with BAD_SEQUENCE_ID.  So whoever is past the header has read its
\* own id.
C2_MismatchRejected ==
    \A p \in Callers :
        pc[p] \in ReadPoints \ {"read_begin"} => rhdr[p].seqid = mySeq[p]

\* C3: a Timeout is delivered only with a timeout configured, from a
\* suspension point, and with the connection closed; the connection stays
\* closed, and every invocation on a closed connection fails with
\* ConnectionClosed without writing or reading anything.
C3_TimeoutCloses ==
    [][/\ \A p \in Callers :
            (pc[p] # "done" /\ outcome'[p] = Raise("Timeout")) =>
                (timeout /\ pc[p] \in Suspended /\ pc'[p] = "done" /\ closed')
       /\ (closed => closed')
       /\ \A q \in Callers : (closed /\ Invokes(q)) => FailsFast(q)]_vars

\* one call timed out after writing the only frame of the connection, and the
\* other caller's call has failed fast
C3_Witness ==
    \E p, q \in Callers :
        /\ p # q /\ timeout /\ closed /\ seqid = 1
        /\ pc[p] = "done" /\ outcome[p] = Raise("Timeout") /\ mySeq[p] = 1
        /\ pc[q] = "done" /\ outcome[q] = Raise("ConnectionClosed") /\ mySeq[q] = 0

\* C4: a call that ends with ConnectionClosed at the flush or at a read of
\* the response (a transport failure) ends with the connection closed.
C4_TransportFailureCloses ==
    [][\A p \in Callers :
          (pc[p] \in Suspended /\ outcome'[p] = Raise("ConnectionClosed")) =>
              (pc'[p] = "done" /\ closed')]_vars

\* a call that wrote its frame ended with ConnectionClosed, with no timeout
\* configured
C4_Witness ==
    \E p \in Callers :
        /\ ~timeout /\ closed
        /\ pc[p] = "done" /\ outcome[p] = Raise("ConnectionClosed") /\ mySeq[p] = 1

\* the reply decoded for p declares a success field and has neither it nor a
\* declared exception populated
MissingCase(p) ==
    /\ pc[p] = "read_end"
    /\ HasAttr(api[p], "success")
    /\ result[p]["success"] = None
    /\ \A k \in ThrowFields(api[p]) : result[p][k] = None

ThrowCase(p) ==
    /\ pc[p] = "read_end"
    /\ HasAttr(api[p], "success") => result[p]["success"] = None
    /\ \E k \in ThrowFields(api[p]) : result[p][k] # None

\* C6: when the accepted reply has no populated success field and a populated
\* declared-exception field, the call raises the value of such a field, closed
\* is left as it was (it stays false), and an invocation that follows on the
\* open connection sends a frame with the next sequence id.
C6_DeclaredException ==
    [][/\ \A p \in Callers :
            (ThrowCase(p) /\ Completes(p)) =>
                /\ outcome'[p].kind = "raise"
                /\ \E k \in ThrowFields(api[p]) :
                      result[p][k] # None /\ outcome'[p].val = result[p][k]
                /\ closed' = closed
       /\ \A p, q \in Callers :
            (pc[p] = "done" /\ outcome[p].val \in {"E1", "E2"}
                /\ ~closed /\ Invokes(q)) => SendsNext(q)]_vars

\* a call raised the declared exception E1, the connection is open and the
\* other caller's call, sent with the next id, is awaiting its response
C6_Witness ==
    \E p, q \in Callers :
        /\ pc[p] = "done" /\ outcome[p] = Raise("E1") /\ ~closed
        /\ pc[q] = "read_begin" /\ mySeq[q] = mySeq[p] + 1

\* what execute raises that is no declared business exception
Faults == {"Timeout", "ConnectionClosed", "BAD_SEQUENCE_ID", "MISSING_RESULT",
           "TApplicationException"}

C8_OnewayNeverReads ==
    [][\A p \in Callers :
          /\ pc'[p] \in ReadPoints => ~Oneway(api'[p])
          /\ (pc[p] = "drain" /\ Oneway(api[p]) /\ Completes(p)) =>
                (outcome'[p] = Return(None) /\ inq' = inq /\ closed' = closed)]_vars

\* a oneway call has returned on an open connection while a response frame
\* of the peer lies unread
C8_Witness ==
    \E p \in Callers :
        /\ pc[p] = "done" /\ Oneway(api[p]) /\ outcome[p] = Return(None)
        /\ ~closed /\ inq > 0

\* the sequence ids of the request headers written, in order
HeaderIds(w) ==
    LET b == SelectSeq(w, LAMBDA x : x.t = "begin")
    IN  [i \in 1..Len(b) |-> b[i].seqid]

\* C9: the counter starts at 0 and never decreases; the request frames
\* written carry the ids 1, 2, 3, ... in this order, the last of them the
\* counter's value: each is 1 greater than the one before, none is used twice.
C9_SequenceIds ==
    /\ [](HeaderIds(wire) = [i \in 1..seqid |-> i])
    /\ [][seqid' >= seqid]_vars

\* MaxCalls frames were written, the last of them by a call that returned,
\* on a connection where another call failed
C9_Witness ==
    \E p, q \in Callers :
        /\ seqid = MaxCalls /\ Len(wire) = 3 * MaxCalls
        /\ pc[p] = "done" /\ outcome[p].kind = "return" /\ mySeq[p] = MaxCalls
        /\ pc[q] = "done" /\ outcome[q].kind = "raise" /\ mySeq[q] = MaxCalls - 1

\* C10 (as claimed): at most one call is between writing its request frame
\* and resolving its outcome.
C10_OneInFlight ==
    Cardinality({p \in Callers : pc[p] \in Suspended}) <= 1

\* the request header of the call of p, as it stands on the wire: the method
\* name of the call and the id the call was assigned
OwnHeaderOnWire(p) ==
    \E i \in 1..Len(wire) :
        wire[i] = [t |-> "begin", name |-> api[p], mtype |-> "CALL",
                   seqid |-> mySeq[p]]

\* C11 (as claimed): under any interleaving, a call in flight has its own
\* request header on the wire, with the id it was assigned, and the response
\* header it has accepted carries that very id: a header with any other id,
\* the id of another call included, is not accepted.
C11_CheckedAgainstOwnId ==
    \A p \in Callers :
        pc[p] \in Suspended =>
            /\ OwnHeaderOnWire(p)
            /\ pc[p] \in ReadPoints \ {"read_begin"} => rhdr[p].seqid = mySeq[p]

\* C12: closed is false at construction, and no step takes it from true back
\* to false.
C12_ClosedMonotone ==
    /\ closed = FALSE
    /\ [][closed => closed']_vars

\* the connection is closed and calls were made on it since: one has failed
\* fast while the other, in flight since before, has ended too
C12_Witness ==
    \E p, q \in Callers :
        /\ closed
        /\ pc[p] = "done" /\ outcome[p] = Raise("ConnectionClosed") /\ mySeq[p] = 0
        /\ pc[q] = "done" /\ mySeq[q] > 0

\* C13: close() can be called in every state; a step that changes closed and
\* moves no caller (a close()) ends with closed true and leaves the counter,
\* the wire and the unread frames as they were; on a closed connection
\* close() changes nothing at all, so two calls leave what one call leaves.
C13_CloseIdempotent ==
    /\ [](ENABLED Close)
    /\ [](closed => ~ENABLED (Close /\ vars' # vars))
    /\ [][(closed' # closed /\ pc' = pc) =>
              (closed' /\ seqid' = seqid /\ wire' = wire /\ inq' = inq)]_vars

\* a connection closed by a fault (a bad sequence id) after two frames: a
\* state in which close() meets an already closed connection
C13_Witness ==
    \E p \in Callers :
        /\ closed /\ seqid = MaxCalls
        /\ pc[p] = "done" /\ outcome[p] = Raise("BAD_SEQUENCE_ID")

\* the argument struct of the call under study has been built
Built == argcall.out # Unbuilt

\* C14: a field named by a keyword holds the keyword's value in the argument
\* struct that is sent, also when a positional value maps to the same field.
C14_KeywordsWin ==
    Built => \A k \in ArgFields :
                argcall.kw[k] # Unset => argcall.out[k] = argcall.kw[k]

\* the reply decoded for p was accepted as a REPLY and has the success field
\* populated
SuccessCase(p) ==
    /\ pc[p] = "read_end"
    /\ HasAttr(api[p], "success")
    /\ result[p]["success"] # None

\* C15: when the accepted reply has the success field populated, with 0 as
\* with any other value, the call returns that value unchanged and closed is
\* left as it was, whether or not a declared-exception field is populated too.
C15_SuccessFirst ==
    [][\A p \in Callers :
          (SuccessCase(p) /\ Completes(p)) =>
              (outcome'[p] = Return(result[p]["success"]) /\ closed' = closed)]_vars

\* a call whose reply carried its own id has returned the value 0 on an open
\* connection, and the other caller's call has returned a value as well
C15_Witness ==
    \E p, q \in Callers :
        /\ p # q /\ ~closed
        /\ pc[p] = "done" /\ outcome[p] = Return("zero") /\ mySeq[p] = 1
        /\ pc[q] = "done" /\ outcome[q] = Return("val")

\* C16: with a timeout configured, every call that has been started resolves:
\* a call that is not resolved at once is suspended at the flush or at a read,
\* and from there it ends, whatever the peer and the transport do.
C16_EveryCallResolves ==
    \A p \in Callers : (timeout /\ pc[p] # "idle") ~> (pc[p] = "done")

\* with a timeout configured, both calls were sent, no response frame is
\* there to read, and both have ended with Timeout
C16_Witness ==
    /\ timeout /\ inq = 0 /\ seqid = 2
    /\ \A p \in Callers :
          pc[p] = "done" /\ outcome[p] = Raise("Timeout") /\ mySeq[p] > 0

\* the request of p as the claim spells it: the header (method name, CALL,
\* id), the argument struct, the terminator
RequestWritten(p, id) ==
    wire' = wire \o
        << [t |-> "begin", name |-> api'[p], mtype |-> "CALL", seqid |-> id],
           [t |-> "struct", name |-> api'[p], mtype |-> None, seqid |-> id],
           [t |-> "end", name |-> api'[p], mtype |-> None, seqid |-> id] >>

\* C17: a call on an open connection increments the counter, writes the
\* header with the new id, the argument struct and the terminator, in this
\* order, and is then at the flush, having read nothing; a call comes to its
\* first read only from the flush, its request being on the wire; and a
\* response frame is taken off the transport only by a call at a read.
C17_CallOrder ==
    [][/\ \A p \in Callers :
            /\ (Invokes(p) /\ ~closed) =>
                  /\ seqid' = seqid + 1
                  /\ mySeq'[p] = seqid + 1
                  /\ RequestWritten(p, seqid + 1)
                  /\ pc'[p] = "drain"
                  /\ inq' = inq
            /\ (pc[p] \notin ReadPoints /\ pc'[p] \in ReadPoints) =>
                  /\ pc[p] = "drain" /\ pc'[p] = "read_begin"
                  /\ wire' = wire /\ inq' = inq
                  /\ OwnHeaderOnWire(p)
       /\ inq' < inq => \E p \in Callers : pc[p] = "read_begin"]_vars

\* the second call sent has come through its flush and has read a response
\* header, while the first one is still at its flush
C17_Witness ==
    \E p, q \in Callers :
        /\ pc[p] = "read_struct" /\ mySeq[p] = 2
        /\ pc[q] = "drain" /\ mySeq[q] = 1
        /\ Len(wire) = 6

\* the reply decoded for p is that of a void method, and no declared
\* exception is populated in it
VoidCase(p) ==
    /\ pc[p] = "read_end"
    /\ ~HasAttr(api[p], "success")
    /\ \A k \in ThrowFields(api[p]) : result[p][k] = None

\* C18: when the result schema declares no success field and the accepted
\* reply populates no declared exception, the call returns None and closed is
\* left as it was, with a schema of zero fields as with one of exception
\* fields only; MISSING_RESULT is raised only to a call whose result schema
\* declares a success field.
C18_VoidReturnsEmpty ==
    [][\A p \in Callers :
          /\ (VoidCase(p) /\ Completes(p)) =>
                (outcome'[p] = Return(None) /\ closed' = closed)
          /\ (pc[p] # "done" /\ outcome'[p] = Raise("MISSING_RESULT")) =>
                HasAttr(api[p], "success")]_vars

\* a call of the method that declares only exceptions and a call of the
\* method that declares nothing have both read a reply and returned None, on
\* an open connection
C18_Witness ==
    \E p, q \in Callers :
        /\ ~closed /\ inq = 0
        /\ pc[p] = "done" /\ api[p] = "put" /\ outcome[p] = Return(None)
        /\ pc[q] = "done" /\ api[q] = "ping" /\ outcome[q] = Return(None)

\* the tokens at 3i-2, 3i-1 and 3i of w are the header, the body and the
\* terminator of one frame
WholeFrame(w, i) ==
    /\ w[3 * i - 2].t = "begin" /\ w[3 * i - 2].mtype = "CALL"
    /\ w[3 * i - 1].t = "struct"
    /\ w[3 * i].t = "end"
    /\ \A j \in {3 * i - 1, 3 * i} :
          w[j].seqid = w[3 * i - 2].seqid /\ w[j].name = w[3 * i - 2].name

\* C19: whenever the callers are suspended, in any interleaving, the output
\* stream is a concatenation of whole frames (header, body, terminator of the
\* same call), with the ids of the frames strictly increasing; no header
\* follows a header without a terminator between them.
C19_WholeFramesOnWire ==
    /\ Len(wire) % 3 = 0
    /\ \A i \in 1..(Len(wire) \div 3) :
          /\ WholeFrame(wire, i)
          /\ i > 1 => wire[3 * i - 2].seqid > wire[3 * i - 5].seqid
    /\ \A i \in 1..Len(wire) - 1 :
          wire[i].t = "begin" => wire[i + 1].t # "begin"

\* two calls of different methods are in flight at once, both at the flush
C19_Witness ==
    \E p, q \in Callers :
        /\ pc[p] = "drain" /\ pc[q] = "drain"
        /\ api[p] = "get" /\ api[q] = "put"
        /\ mySeq[p] = 1 /\ mySeq[q] = 2 /\ Len(wire) = 6

\* C20: a call that is suspended at the flush or at a read while closed is
\* true takes no response frame off the transport, and when it ends it ends
\* with a failure, never with a value or a declared exception.
C20_InFlightFailsOnceClosed ==
    [][\A p \in Callers :
          (closed /\ pc[p] \in Suspended) =>
              /\ inq' = inq
              /\ pc'[p] = "done" =>
                    (outcome'[p].kind = "raise" /\ outcome'[p].val \in Faults)]_vars

====
